---- MODULE Spec2Model ----
(***************************************************************************)
(* hashline-tools: the opencode tool wrappers hashedit / hashread and the  *)
(* hashline engine they shell out to.                                      *)
(*                                                                         *)
(* The wrappers (TypeScript) are modelled from their source.  The engine   *)
(* (`hashline-tools edit`, a separate binary) is modelled from its         *)
(* specification: anchor parser, edit plan, applier and diff emitter.      *)
(*                                                                         *)
(* A file is a sequence of LF-terminated lines; a line's content is a      *)
(* character sequence.  JavaScript values are tagged records, so that the  *)
(* typeof / truthiness tests of the wrappers are computed, not assumed.    *)
(***************************************************************************)
EXTENDS Integers, Sequences, FiniteSets, TLC

\* ------------------------------------------------------------------ bounds
MaxLines == 3        \* longest file explored (lines)

\* Line contents explored (character sequences).
Contents == {<<"a">>, <<"b">>}

\* ------------------------------------------------------- JavaScript values
\* Scalars: undefined, null, number (num/den; 0/0 is NaN), string (chars).
JUndef == [t |-> "undefined", num |-> 0, den |-> 1, s |-> <<>>]
JNull == [t |-> "null", num |-> 0, den |-> 1, s |-> <<>>]
JNum(n, d) == [t |-> "number", num |-> n, den |-> d, s |-> <<>>]
JNaN == JNum(0, 0)
JStr(s) == [t |-> "string", num |-> 0, den |-> 1, s |-> s]

\* x < 1 as JavaScript evaluates it on a number (false for NaN).
LessThanOne(v) == v.den > 0 /\ v.num < v.den

IsInteger(v) == v.t = "number" /\ v.den = 1

\* Values found in a pos / end field: undefined, a string, a number or an
\* object {line, hash}.
AUndef == [t |-> "undefined", num |-> 0, den |-> 1, s |-> <<>>, line |-> JUndef, hash |-> JUndef]
AStr(s) == [t |-> "string", num |-> 0, den |-> 1, s |-> s, line |-> JUndef, hash |-> JUndef]
ANum(n) == [t |-> "number", num |-> n, den |-> 1, s |-> <<>>, line |-> JUndef, hash |-> JUndef]
AObj(line, hash) == [t |-> "object", num |-> 0, den |-> 1, s |-> <<>>, line |-> line, hash |-> hash]

\* JavaScript truthiness of a pos / end value.
Truthy(v) ==
  CASE v.t = "undefined" -> FALSE
    [] v.t = "null" -> FALSE
    [] v.t = "number" -> v.den > 0 /\ v.num # 0
    [] v.t = "string" -> Len(v.s) > 0
    [] OTHER -> TRUE

\* Values found in a lines field.
LUndef == [t |-> "undefined", items |-> <<>>]
LArr(items) == [t |-> "array", items |-> items]
LStr == [t |-> "string", items |-> <<>>]

\* An entry of one of the replace / append / prepend / delete arrays.
Entry(pos, end, lines) == [t |-> "object", pos |-> pos, end |-> end, lines |-> lines]
NullEntry == [t |-> "null", pos |-> AUndef, end |-> AUndef, lines |-> LUndef]

\* ------------------------------------------------ anchors (engine, L2 + L4)
Alphabet ==
  << "0", "1", "2", "3", "4", "5", "6", "7", "8", "9", "A", "B", "C", "D", "E",
     "F", "G", "H", "I", "J", "K", "L", "M", "N", "O", "P", "Q", "R", "S", "T",
     "U", "V", "W", "X", "Y", "Z" >>

AlphabetSet == {Alphabet[i] : i \in 1..Len(Alphabet)}

DigitChars == SubSeq(Alphabet, 1, 10)

DigitSet == {DigitChars[i] : i \in 1..Len(DigitChars)}

DigitValue(c) == (CHOOSE i \in 1..Len(DigitChars) : DigitChars[i] = c) - 1

\* Byte value of a character of a line (ASCII).
CharCode(c) ==
  CASE c = "a" -> 97
    [] c = "b" -> 98
    [] c = "c" -> 99
    [] OTHER -> 10

SEP == "\n"

\* content(1) SEP content(2) SEP ... content(i)
RECURSIVE CumulativeBytes(_, _)
CumulativeBytes(buf, i) ==
  IF i = 0 THEN <<>>
  ELSE IF i = 1 THEN buf[1]
  ELSE CumulativeBytes(buf, i - 1) \o <<SEP>> \o buf[i]

\* A 16-bit multiplicative digest of a byte sequence.
RECURSIVE Digest(_)
Digest(bytes) ==
  IF bytes = <<>> THEN 5381
  ELSE (Digest(SubSeq(bytes, 1, Len(bytes) - 1)) * 33 + CharCode(bytes[Len(bytes)])) % 65536

\* The digest's two leading bytes, each modulo 36, as characters 0-9A-Z.
Project(h) == << Alphabet[((h \div 256) % 36) + 1], Alphabet[((h % 256) % 36) + 1] >>

\* Variant of LineHash that also mixes in the length of the buffer.
LineHashWithLength(buf, i) == Project((Digest(CumulativeBytes(buf, i)) + Len(buf)) % 65536)

\* The 2-character hash of line i of buf.
LineHash(buf, i) == Project(Digest(CumulativeBytes(buf, i)))

\* The hash shown on deletion rows of the diff; never a line's hash.
DeletedHash == << " ", " " >>

RECURSIVE NatToChars(_)
NatToChars(n) ==
  IF n < 10 THEN <<DigitChars[n + 1]>>
  ELSE NatToChars(n \div 10) \o <<DigitChars[(n % 10) + 1]>>

RECURSIVE CharsToNat(_)
CharsToNat(s) ==
  IF s = <<>> THEN 0
  ELSE CharsToNat(SubSeq(s, 1, Len(s) - 1)) * 10 + DigitValue(s[Len(s)])

\* The external rendering "<line>#<hash>" of an anchor.
FormatAnchor(line, hash) == NatToChars(line) \o <<"#">> \o hash

NoAnchor == [ok |-> FALSE, line |-> 0, hash |-> <<>>]

IsHash(h) == Len(h) = 2 /\ \A i \in 1..Len(h) : h[i] \in AlphabetSet

\* Parse "<digits>#<two-chars>": rejects a missing #, a non-numeric or
\* non-positive line, a hash of length other than 2 or outside the alphabet.
ParseAnchor(s) ==
  LET marks == {i \in 1..Len(s) : s[i] = "#"}
  IN IF marks = {} THEN NoAnchor
     ELSE LET i == CHOOSE j \in marks : \A k \in marks : j <= k
              ln == SubSeq(s, 1, i - 1)
              h == SubSeq(s, i + 1, Len(s))
          IN IF /\ ln # <<>>
                /\ \A k \in 1..Len(ln) : ln[k] \in DigitSet
                /\ CharsToNat(ln) >= 1
                /\ IsHash(h)
             THEN [ok |-> TRUE, line |-> CharsToNat(ln), hash |-> h]
             ELSE NoAnchor

\* The decoder's tagged union: the string form or the object {line, hash},
\* both normalized to one internal anchor.
DecodeAnchor(v) ==
  CASE v.t = "string" -> ParseAnchor(v.s)
    [] v.t = "object" ->
         IF /\ IsInteger(v.line) /\ v.line.num >= 1
            /\ v.hash.t = "string" /\ IsHash(v.hash.s)
         THEN [ok |-> TRUE, line |-> v.line.num, hash |-> v.hash.s]
         ELSE NoAnchor
    [] OTHER -> NoAnchor

\* --------------------------------------------------- edit plan (engine, L5)
Max(a, b) == IF a >= b THEN a ELSE b

IsStringArray(l) == l.t = "array" /\ \A i \in 1..Len(l.items) : l.items[i].t = "string"

\* Required fields per kind: replace and delete need pos, every kind but
\* delete needs lines.
ShapeOk(e) ==
  /\ e.op \in {"replace", "append", "prepend", "delete"}
  /\ e.op \in {"replace", "delete"} => e.pos.t # "undefined"
  /\ e.op # "delete" => IsStringArray(e.lines)

SyntaxOk(e) ==
  /\ e.pos.t # "undefined" => DecodeAnchor(e.pos).ok
  /\ e.end.t # "undefined" => DecodeAnchor(e.end).ok

\* Look the anchor's line up in the buffer and compare its current hash.
ResolveAnchor(buf, a) ==
  IF a.line > Len(buf) THEN "AnchorOutOfRange"
  ELSE IF LineHash(buf, a.line) # a.hash THEN "HashMismatch"
  ELSE "ok"

ResolveEdit(buf, e) ==
  LET rp == IF e.pos.t = "undefined" THEN "ok" ELSE ResolveAnchor(buf, DecodeAnchor(e.pos))
      re == IF e.end.t = "undefined" THEN "ok" ELSE ResolveAnchor(buf, DecodeAnchor(e.end))
  IN IF rp # "ok" THEN rp
     ELSE IF re # "ok" THEN re
     ELSE IF e.end.t # "undefined" /\ DecodeAnchor(e.end).line < DecodeAnchor(e.pos).line
     THEN "InvalidRange"
     ELSE "ok"

\* Variant of Priority that gives every kind the same priority.
PriorityFlat(op) == 1

Priority(op) ==
  CASE op = "prepend" -> 0
    [] op = "append" -> 2
    [] OTHER -> 1

PlainLines(l) == [i \in 1..Len(l.items) |-> l.items[i].s]

\* The half-open interval [start, end) of an edit in the original buffer.
Interval(buf, e, idx) ==
  LET p == IF e.pos.t = "undefined" THEN 0 ELSE DecodeAnchor(e.pos).line
      q == IF e.end.t = "undefined" THEN p ELSE DecodeAnchor(e.end).line
  IN CASE e.op = "append" ->
            LET at == IF e.pos.t = "undefined" THEN Len(buf) + 1 ELSE p + 1
            IN [start |-> at, end |-> at, prio |-> Priority(e.op), idx |-> idx,
                ins |-> TRUE, lines |-> PlainLines(e.lines)]
       [] e.op = "prepend" ->
            LET at == IF e.pos.t = "undefined" THEN 1 ELSE p
            IN [start |-> at, end |-> at, prio |-> Priority(e.op), idx |-> idx,
                ins |-> TRUE, lines |-> PlainLines(e.lines)]
       [] e.op = "delete" ->
            [start |-> p, end |-> q + 1, prio |-> Priority(e.op), idx |-> idx,
             ins |-> FALSE, lines |-> <<>>]
       [] OTHER ->
            [start |-> p, end |-> q + 1, prio |-> Priority(e.op), idx |-> idx,
             ins |-> FALSE, lines |-> PlainLines(e.lines)]

\* The sort key (start, priority, original-index).
PlanBefore(a, b) ==
  \/ a.start < b.start
  \/ a.start = b.start /\ a.prio < b.prio
  \/ a.start = b.start /\ a.prio = b.prio /\ a.idx < b.idx

RECURSIVE SortPlan(_)
SortPlan(S) ==
  IF S = {} THEN <<>>
  ELSE LET m == CHOOSE x \in S : \A y \in S \ {x} : PlanBefore(x, y)
       IN <<m>> \o SortPlan(S \ {m})

Overlaps(a, b) ==
  CASE ~a.ins /\ ~b.ins -> a.start < b.end /\ b.start < a.end
    [] a.ins /\ ~b.ins -> b.start < a.start /\ a.start < b.end
    [] ~a.ins /\ b.ins -> a.start < b.start /\ b.start < a.end
    [] OTHER -> FALSE

\* The first fatal error of a batch, or "ok".
PlanError(buf, batch) ==
  LET n == Len(batch)
      bad == {i \in 1..n : ResolveEdit(buf, batch[i]) # "ok"}
  IN IF n = 0 THEN "EmptyEditBatch"
     ELSE IF \E i \in 1..n : ~ShapeOk(batch[i]) THEN "InvalidEditShape"
     ELSE IF \E i \in 1..n : ~SyntaxOk(batch[i]) THEN "InvalidAnchorSyntax"
     ELSE IF bad # {}
     THEN ResolveEdit(buf, batch[CHOOSE i \in bad : \A j \in bad : i <= j])
     ELSE IF \E i, j \in 1..n :
               i < j /\ Overlaps(Interval(buf, batch[i], i), Interval(buf, batch[j], j))
     THEN "OverlappingEdits"
     ELSE "ok"

Plan(buf, batch) == SortPlan({Interval(buf, batch[i], i) : i \in 1..Len(batch)})

\* ------------------------------------------------ edit applier (engine, L6)
Repeat(n, x) == [i \in 1..n |-> x]

\* Walk the original buffer and the plan in lockstep.  acc.out is the new
\* buffer so far, acc.marks classifies each of its lines, acc.dels lists the
\* deleted lines (pre-edit number, content, post-edit position they precede).
RECURSIVE Walk(_, _, _, _)
Walk(buf, plan, k, acc) ==
  IF k > Len(plan)
  THEN LET rest == SubSeq(buf, acc.cursor, Len(buf))
       IN [acc EXCEPT !.out = @ \o rest, !.marks = @ \o Repeat(Len(rest), "ctx"),
                      !.cursor = Len(buf) + 1]
  ELSE LET e == plan[k]
           copied == SubSeq(buf, acc.cursor, e.start - 1)
           out1 == acc.out \o copied
           from == Max(acc.cursor, e.start)
           gone == SubSeq(buf, from, e.end - 1)
           dels1 == acc.dels \o
                    [i \in 1..Len(gone) |->
                       [n |-> from + i - 1, content |-> gone[i], at |-> Len(out1) + 1]]
       IN Walk(buf, plan, k + 1,
               [out |-> out1 \o e.lines,
                marks |-> acc.marks \o Repeat(Len(copied), "ctx") \o Repeat(Len(e.lines), "ins"),
                dels |-> dels1,
                cursor |-> Max(acc.cursor, e.end)])

ApplyPlan(buf, plan) ==
  Walk(buf, plan, 1, [out |-> <<>>, marks |-> <<>>, dels |-> <<>>, cursor |-> 1])

\* ------------------------------------------------ diff emitter (engine, L7)
ContextLines == 5

GapRow == [kind |-> "gap", n |-> 0, hash |-> <<>>, content |-> <<>>]

\* Post-edit positions a change touches.
ChangedAt(applied) ==
  {n \in 1..Len(applied.out) : applied.marks[n] = "ins"}
    \cup {applied.dels[i].at : i \in 1..Len(applied.dels)}

Shown(applied, n) ==
  \E c \in ChangedAt(applied) : n >= c - ContextLines /\ n <= c + ContextLines

\* Variant of LineRow that hashes the line's own content, not the prefix.
LineRowOwnContent(applied, n) ==
  [kind |-> applied.marks[n], n |-> n, hash |-> LineHash(<<applied.out[n]>>, 1),
   content |-> applied.out[n]]

\* Context and inserted rows carry the fresh hash of the post-edit buffer;
\* deletion rows carry the pre-edit number and the reserved hash.
LineRow(applied, n) ==
  [kind |-> applied.marks[n], n |-> n, hash |-> LineHash(applied.out, n),
   content |-> applied.out[n]]

DeletedRows(applied, n) ==
  LET here == SelectSeq(applied.dels, LAMBDA d : d.at = n)
  IN [i \in 1..Len(here) |->
        [kind |-> "del", n |-> here[i].n, hash |-> DeletedHash, content |-> here[i].content]]

RECURSIVE DiffRows(_, _)
DiffRows(applied, n) ==
  IF n = 0 THEN <<>>
  ELSE DiffRows(applied, n - 1)
       \o (IF /\ n <= Len(applied.out) /\ Shown(applied, n)
              /\ n > 1 /\ ~Shown(applied, n - 1)
              /\ \E m \in 1..(n - 1) : Shown(applied, m)
           THEN <<GapRow>> ELSE <<>>)
       \o DeletedRows(applied, n)
       \o (IF n <= Len(applied.out) /\ Shown(applied, n)
           THEN <<LineRow(applied, n)>> ELSE <<>>)

EmitDiff(applied) == DiffRows(applied, Len(applied.out) + 1)

\* ---------------------------------------------- command surface (engine, L8)
\* `hashline-tools edit <path> --edits-stdin`: plan, apply, write once, print
\* the diff; on any failure the file is left untouched.
EngineEdit(exists, buf, batch) ==
  IF ~exists
  THEN [status |-> "error", kind |-> "IoError", file |-> buf, rows |-> <<>>, first |-> 0]
  ELSE IF PlanError(buf, batch) # "ok"
  THEN [status |-> "error", kind |-> PlanError(buf, batch), file |-> buf, rows |-> <<>>,
        first |-> 0]
  ELSE LET applied == ApplyPlan(buf, Plan(buf, batch))
           changed == ChangedAt(applied)
       IN [status |-> "ok", kind |-> "ok", file |-> applied.out, rows |-> EmitDiff(applied),
           first |-> IF changed = {} THEN 1
                     ELSE CHOOSE c \in changed : \A d \in changed : c <= d]

\* -------------------------------------------------- hashedit: validation
\* Variant of validateAnchor that does not check the length of the hash.
validateAnchorAnyLength(anchor) ==
  IF ~Truthy(anchor) \/ anchor.t # "object" THEN "anchor"
  ELSE IF anchor.line.t # "number" \/ LessThanOne(anchor.line) THEN "line"
  ELSE IF anchor.hash.t # "string" THEN "hash"
  ELSE "ok"

\* validateAnchor of the {line, hash} wrapper: "ok" or the failing field.
validateAnchor(anchor) ==
  IF ~Truthy(anchor) \/ anchor.t # "object" THEN "anchor"
  ELSE IF anchor.line.t # "number" \/ LessThanOne(anchor.line) THEN "line"
  ELSE IF anchor.hash.t # "string" \/ Len(anchor.hash.s) # 2 THEN "hash"
  ELSE "ok"

ValidateLines(edit, op) ==
  IF op = "delete" THEN "ok"
  ELSE IF edit.lines.t # "array" THEN "lines"
  ELSE IF \E i \in 1..Len(edit.lines.items) : edit.lines.items[i].t # "string" THEN "lines[i]"
  ELSE "ok"

\* validateEdit of the {line, hash} wrapper.
validateEdit(edit, op) ==
  IF edit.t # "object" THEN "edit"
  ELSE IF validateAnchor(edit.pos) # "ok" THEN "pos." \o validateAnchor(edit.pos)
  ELSE IF Truthy(edit.end) /\ validateAnchor(edit.end) # "ok"
  THEN "end." \o validateAnchor(edit.end)
  ELSE ValidateLines(edit, op)

\* Variant of validateEditStr that does not check the type of pos and end.
validateEditStrAnyType(edit, op) ==
  IF edit.t # "object" THEN "edit" ELSE ValidateLines(edit, op)

\* validateEdit of the "LINE#HASH" wrapper.
validateEditStr(edit, op) ==
  IF edit.t # "object" THEN "edit"
  ELSE IF edit.pos.t # "undefined" /\ edit.pos.t # "string" THEN "pos"
  ELSE IF edit.end.t # "undefined" /\ edit.end.t # "string" THEN "end"
  ELSE ValidateLines(edit, op)

\* ------------------------------------------------ hashedit: batch assembly
Absent == [present |-> FALSE, items |-> <<>>]
Given(items) == [present |-> TRUE, items |-> items]

NoWrite == [present |-> FALSE, content |-> <<>>]
Write(content) == [present |-> TRUE, content |-> content]

Tagged(op, arr) ==
  IF arr.present THEN [i \in 1..Len(arr.items) |-> [op |-> op, index |-> i - 1, edit |-> arr.items[i]]]
  ELSE <<>>

\* Variant of Entries that visits the prepend array before the append array.
EntriesPrependFirst(args) ==
  Tagged("replace", args.replace) \o Tagged("prepend", args.prepend)
    \o Tagged("append", args.append) \o Tagged("delete", args.delete)

\* The entries in the order the forEach loops visit them.
Entries(args) ==
  Tagged("replace", args.replace) \o Tagged("append", args.append)
    \o Tagged("prepend", args.prepend) \o Tagged("delete", args.delete)

\* Variant of deleteOp that forwards the delete as an operation of its own.
deleteOpFirstClass(edit) == [op |-> "delete", pos |-> edit.pos, end |-> edit.end, lines |-> LUndef]

\* Delete is implemented as replace with empty lines.
deleteOp(edit) == [op |-> "replace", pos |-> edit.pos, end |-> edit.end, lines |-> LArr(<<>>)]

\* The object pushed onto edits for one entry.
Pushed(x) ==
  CASE x.op = "replace" ->
         [op |-> "replace", pos |-> x.edit.pos, end |-> x.edit.end, lines |-> x.edit.lines]
    [] x.op = "delete" -> deleteOp(x.edit)
    [] OTHER -> [op |-> x.op, pos |-> x.edit.pos, end |-> AUndef, lines |-> x.edit.lines]

\* JSON.stringify then the engine's JSON decoding: undefined members are
\* dropped (kept as undefined here), NaN becomes null.
JsonScalar(v) == IF v.t = "number" /\ v.den = 0 THEN JNull ELSE v

JsonAnchor(a) ==
  CASE a.t = "object" -> AObj(JsonScalar(a.line), JsonScalar(a.hash))
    [] a.t = "number" /\ a.den = 0 -> [a EXCEPT !.t = "null"]
    [] OTHER -> a

Stringify(edits) ==
  [i \in 1..Len(edits) |->
     [edits[i] EXCEPT !.pos = JsonAnchor(@), !.end = JsonAnchor(@)]]

NoWhere == [op |-> "", index |-> 0, field |-> ""]

\* validateEdit as the version t of the wrapper defines it.
validateFor(t, edit, op) ==
  IF t = "hashedit" THEN validateEdit(edit, op) ELSE validateEditStr(edit, op)

\* The first entry validation throws on, in visiting order, or NoWhere.
FirstInvalid(t, args) ==
  LET es == Entries(args)
      bad == {i \in 1..Len(es) : validateFor(t, es[i].edit, es[i].op) # "ok"}
  IN IF bad = {} THEN NoWhere
     ELSE LET i == CHOOSE j \in bad : \A k \in bad : j <= k
          IN [op |-> es[i].op, index |-> es[i].index,
              field |-> validateFor(t, es[i].edit, es[i].op)]

Assemble(args) == [i \in 1..Len(Entries(args)) |-> Pushed(Entries(args)[i])]

\* Variant of noEdits that never refuses a batch.
noEditsNever(edits) == FALSE

\* edits.length === 0
noEdits(edits) == Len(edits) = 0

\* Variant of writeRequested that tests the truthiness of args.write.
writeTruthy(args) == args.write.present /\ args.write.content # <<>>

\* args.write !== undefined
writeRequested(args) == args.write.present

\* ---------------------------------------------------- hashedit: execute
RECURSIVE ByteSize(_)
ByteSize(buf) == IF buf = <<>> THEN 0 ELSE Len(Head(buf)) + 1 + ByteSize(Tail(buf))

NoOutput == [type |-> "none", title |-> "", size |-> 0, rows |-> <<>>]

\* The write branch: the whole file is replaced, a summary is returned.
executeWrite(exists, buf, args) ==
  [exists |-> TRUE, file |-> args.write.content, status |-> "ok", kind |-> "ok",
   where |-> NoWhere, sent |-> <<>>, engineCalls |-> 0, writes |-> 1,
   output |-> [type |-> "summary", title |-> IF exists THEN "Updated" ELSE "Created",
               size |-> ByteSize(args.write.content), rows |-> <<>>]]

Thrown(exists, buf, kind, where, sent, calls) ==
  [exists |-> exists, file |-> buf, status |-> "error", kind |-> kind, where |-> where,
   sent |-> sent, engineCalls |-> calls, writes |-> 0, output |-> NoOutput]

\* The edit branch: validate every entry, assemble, refuse an empty batch,
\* run the engine once on the serialized batch.
executeEdits(t, exists, buf, args) ==
  LET invalid == FirstInvalid(t, args)
      edits == Assemble(args)
      sent == Stringify(edits)
      run == EngineEdit(exists, buf, sent)
  IN IF invalid # NoWhere THEN Thrown(exists, buf, "Invalid", invalid, <<>>, 0)
     ELSE IF noEdits(edits) THEN Thrown(exists, buf, "NoEdits", NoWhere, <<>>, 0)
     ELSE IF run.status # "ok" THEN Thrown(exists, run.file, run.kind, NoWhere, sent, 1)
     ELSE [exists |-> exists, file |-> run.file, status |-> "ok", kind |-> "ok",
           where |-> NoWhere, sent |-> sent, engineCalls |-> 1, writes |-> 1,
           output |-> [type |-> "diff", title |-> "Edit", size |-> Len(edits),
                       rows |-> run.rows]]

\* Variant of execute that runs the engine entry by entry, each as soon as
\* it has been validated (used to test the atomicity property).
RECURSIVE EagerRun(_, _, _, _)
EagerRun(e, buf, es, k) ==
  IF k > Len(es)
  THEN [exists |-> e, file |-> buf, status |-> "ok", kind |-> "ok", where |-> NoWhere,
        sent |-> Stringify([i \in 1..Len(es) |-> Pushed(es[i])]), engineCalls |-> Len(es),
        writes |-> Len(es), output |-> [NoOutput EXCEPT !.type = "diff"]]
  ELSE IF validateEdit(es[k].edit, es[k].op) # "ok"
  THEN Thrown(e, buf, "Invalid",
              [op |-> es[k].op, index |-> es[k].index,
               field |-> validateEdit(es[k].edit, es[k].op)], <<>>, k - 1)
  ELSE LET run == EngineEdit(e, buf, Stringify(<<Pushed(es[k])>>))
       IN IF run.status # "ok" THEN Thrown(e, run.file, run.kind, NoWhere, <<>>, k)
          ELSE EagerRun(e, run.file, es, k + 1)

executeEager(exists, buf, args) ==
  IF writeRequested(args) THEN executeWrite(exists, buf, args)
  ELSE IF Entries(args) = <<>> THEN Thrown(exists, buf, "NoEdits", NoWhere, <<>>, 0)
  ELSE EagerRun(exists, buf, Entries(args), 1)

\* Variant of execute that validates the supplied entries before it looks
\* at write.
executeValidateFirst(exists, buf, args) ==
  IF FirstInvalid("hashedit", args) # NoWhere
  THEN Thrown(exists, buf, "Invalid", FirstInvalid("hashedit", args), <<>>, 0)
  ELSE IF writeRequested(args) THEN executeWrite(exists, buf, args)
  ELSE executeEdits("hashedit", exists, buf, args)

\* execute of the {line, hash} wrapper.
execute(exists, buf, args) ==
  IF writeRequested(args) THEN executeWrite(exists, buf, args)
  ELSE executeEdits("hashedit", exists, buf, args)

\* execute of the "LINE#HASH" wrapper.
executeStr(exists, buf, args) ==
  IF writeRequested(args) THEN executeWrite(exists, buf, args)
  ELSE executeEdits("hashedit-str", exists, buf, args)

\* ------------------------------------------------------------ the inputs
Files == UNION {[1..k -> Contents] : k \in 0..MaxLines}

\* A well-formed hash that is (almost always) not the line's current hash.
StaleHash == << "Z", "Z" >>

FreshHash(buf, n) == IF n >= 1 /\ n <= Len(buf) THEN LineHash(buf, n) ELSE StaleHash

\* An anchor in the form a caller writes it: the object or the string.
InForm(form, n, h) ==
  IF form = "object" THEN AObj(JNum(n, 1), JStr(h)) ELSE AStr(FormatAnchor(n, h))

Forms == {"object", "string"}

\* Anchors citing line n with its current hash, and with a stale one.
WellFormed(buf, form) ==
  {InForm(form, n, FreshHash(buf, n)) : n \in 1..(Len(buf) + 1)}
    \cup {InForm(form, n, StaleHash) : n \in 1..Len(buf)}

\* Anchors with one defect each, otherwise citing line 1 correctly.
Malformed(buf) ==
  LET h == FreshHash(buf, 1)
  IN {AObj(l, JStr(h)) : l \in {JNum(0, 1), JNum(3, 2), JNaN, JStr(<<"1">>), JUndef}}
       \cup {AObj(JNum(1, 1), x) :
               x \in {JStr(<<" ", " ">>), JStr(<<"a", "b">>), JStr(<<"A">>),
                      JStr(<<"A", "B", "C">>), JNum(7, 1), JUndef}}
       \cup {AStr(s) :
               s \in {<<"0", "#">> \o h, <<"1">> \o h, <<"a", "#">> \o h, <<"1", "#", " ", " ">>,
                      <<"1", "#", "a", "b">>, <<"1", "#", "A">>, <<"1", "#", "A", "B", "C">>,
                      <<>>}}
       \cup {AUndef, ANum(1)}

PosPool(buf) == WellFormed(buf, "object") \cup WellFormed(buf, "string") \cup Malformed(buf)

EndPool(buf) ==
  {AUndef, AStr(<<>>), AObj(JNum(1, 1), JStr(<<" ", " ">>))}
    \cup {InForm(f, n, FreshHash(buf, n)) : f \in Forms, n \in {1, Len(buf)} \ {0}}

Kinds == {"replace", "append", "prepend", "delete"}

Line(c) == LArr(<<JStr(c)>>)

BadLines == {LUndef, LStr, LArr(<<JNum(1, 1)>>), LArr(<<JStr(<<"a">>), JStr(<<"b">>)>>)}

\* One tagged entry: the array it is supplied in and the entry itself.
Tag(op, edit) == [op |-> op, edit |-> edit]

SingleEntries(buf) ==
  {Tag(op, Entry(pos, end, lines)) :
     op \in Kinds, pos \in PosPool(buf), end \in EndPool(buf),
     lines \in {Line(<<"a">>), LArr(<<>>)}}
    \cup {Tag(op, Entry(InForm(f, 1, FreshHash(buf, 1)), AUndef, lines)) :
            op \in Kinds, f \in Forms, lines \in BadLines}
    \cup {Tag(op, NullEntry) : op \in Kinds}

\* Entries of the two-entry calls: current anchors in one form, a missing
\* or ill-typed pos, single lines or ranges up to the last line.
PairEntries(buf, form) ==
  LET pos == {AUndef, ANum(1)} \cup {InForm(form, n, FreshHash(buf, n)) : n \in 1..Len(buf)}
      end == {AUndef} \cup {InForm(form, n, FreshHash(buf, n)) : n \in {Len(buf)} \ {0}}
  IN {Tag(op, Entry(p, AUndef, Line(c))) : op \in {"append", "prepend"}, p \in pos, c \in Contents}
       \cup {Tag("replace", Entry(p, e, Line(c))) : p \in pos, e \in end, c \in Contents}
       \cup {Tag("delete", Entry(p, e, LUndef)) : p \in pos, e \in end}

ArrayOf(xs, op) ==
  LET sel == SelectSeq(xs, LAMBDA x : x.op = op)
  IN IF sel = <<>> THEN Absent ELSE Given([i \in 1..Len(sel) |-> sel[i].edit])

\* The call that supplies the tagged entries xs, each in its own array.
ArgsOf(xs) ==
  [replace |-> ArrayOf(xs, "replace"), append |-> ArrayOf(xs, "append"),
   prepend |-> ArrayOf(xs, "prepend"), delete |-> ArrayOf(xs, "delete"), write |-> NoWrite]

NoArgs == ArgsOf(<<>>)

EmptyCalls ==
  {[replace |-> r, append |-> a, prepend |-> p, delete |-> d, write |-> NoWrite] :
     r \in {Absent, Given(<<>>)}, a \in {Absent, Given(<<>>)},
     p \in {Absent, Given(<<>>)}, d \in {Absent, Given(<<>>)}}

WriteCalls(buf) ==
  {[base EXCEPT !.write = Write(c)] :
     c \in Files,
     base \in {NoArgs,
               ArgsOf(<<Tag("replace", Entry(ANum(1), AUndef, LUndef))>>),
               ArgsOf(<<Tag("delete", Entry(InForm("object", 1, StaleHash), AUndef, LUndef)),
                        Tag("append", Entry(InForm("string", 1, StaleHash), AUndef, Line(<<"a">>)))>>)}
              \cup {ArgsOf(<<Tag("replace",
                                 Entry(InForm(f, 1, FreshHash(buf, 1)), AUndef, Line(<<"b">>)))>>) :
                       f \in Forms}}

EditCalls(buf, form) ==
  {ArgsOf(<<x>>) : x \in SingleEntries(buf)}
    \cup {ArgsOf(<<x, y>>) : x \in PairEntries(buf, form), y \in PairEntries(buf, form)}
    \cup EmptyCalls

\* ------------------------------------------------------------- the state
VARIABLES
  exists,     \* whether the file exists
  file,       \* its lines
  pc,         \* "idle" between calls, "done" when a call has returned or thrown
  tool,       \* the wrapper the last call went to
  args,       \* the arguments of the last call
  preExists,  \* exists at the start of the last call
  pre,        \* file at the start of the last call
  last        \* what the last call did: status, error, batch sent, output

vars == <<exists, file, pc, tool, args, preExists, pre, last>>

NoResult ==
  [status |-> "none", kind |-> "", where |-> NoWhere, sent |-> <<>>, engineCalls |-> 0,
   writes |-> 0, output |-> NoOutput]

Init ==
  /\ exists \in BOOLEAN
  /\ file \in Files
  /\ exists = FALSE => file = <<>>
  /\ pc = "idle"
  /\ tool = "none"
  /\ args = NoArgs
  /\ preExists = exists
  /\ pre = file
  /\ last = NoResult

Returned(name, a, out) ==
  /\ pc' = "done"
  /\ tool' = name
  /\ args' = a
  /\ preExists' = exists
  /\ pre' = file
  /\ exists' = out.exists
  /\ file' = out.file
  /\ last' = [status |-> out.status, kind |-> out.kind, where |-> out.where, sent |-> out.sent,
              engineCalls |-> out.engineCalls, writes |-> out.writes, output |-> out.output]

\* A call of the {line, hash} wrapper.
HashEdit ==
  /\ pc = "idle"
  /\ \E a \in EditCalls(file, "object") \cup WriteCalls(file) :
       /\ Len(file) <= MaxLines \/ writeRequested(a)
       /\ Returned("hashedit", a, execute(exists, file, a))

\* A call of the "LINE#HASH" wrapper.
HashEditStr ==
  /\ pc = "idle"
  /\ \E a \in EditCalls(file, "string") \cup WriteCalls(file) :
       /\ Len(file) <= MaxLines \/ writeRequested(a)
       /\ Returned("hashedit-str", a, executeStr(exists, file, a))

\* The caller takes the result; the next call starts from the file as it is.
NextTurn ==
  /\ pc = "done"
  /\ pc' = "idle"
  /\ tool' = "none"
  /\ args' = NoArgs
  /\ preExists' = exists
  /\ pre' = file
  /\ last' = NoResult
  /\ UNCHANGED <<exists, file>>

Next == HashEdit \/ HashEditStr \/ NextTurn

Spec == Init /\ [][Next]_vars

\* ------------------------------------------------------------ properties
\* C1: an append or prepend entry supplied without pos (lines only) is not
\* rejected by validation; it is forwarded with no pos, and on an existing
\* file the lines are inserted at the end (append) or the beginning
\* (prepend) of the file.
C1_InsertWithoutPosAccepted ==
  (/\ pc = "done" /\ ~args.write.present /\ Len(Entries(args)) = 1
   /\ Entries(args)[1].op \in {"append", "prepend"}
   /\ Entries(args)[1].edit.t = "object"
   /\ Entries(args)[1].edit.pos.t = "undefined"
   /\ Entries(args)[1].edit.end.t = "undefined"
   /\ IsStringArray(Entries(args)[1].edit.lines))
  => LET x == Entries(args)[1]
     IN /\ last.kind # "Invalid"
        /\ last.sent = <<[op |-> x.op, pos |-> AUndef, end |-> AUndef, lines |-> x.edit.lines]>>
        /\ preExists =>
             /\ last.status = "ok"
             /\ file = IF x.op = "append" THEN pre \o PlainLines(x.edit.lines)
                       ELSE PlainLines(x.edit.lines) \o pre

\* C2: a call that ends in an error leaves the file as it was at the start
\* of the call and writes nothing; the engine runs at most once per call,
\* and only after every supplied entry has passed validation.
C2_ErrorLeavesFileUnchanged ==
  pc = "done" =>
    /\ last.engineCalls <= 1
    /\ last.engineCalls = 1 =>
         \A i \in 1..Len(Entries(args)) :
           validateFor(tool, Entries(args)[i].edit, Entries(args)[i].op) = "ok"
    /\ last.status = "error" =>
         /\ file = pre
         /\ exists = preExists
         /\ last.writes = 0
         /\ last.kind \in {"Invalid", "NoEdits"} => last.engineCalls = 0 /\ last.sent = <<>>

\* C2 witness: a two-entry call whose first entry is valid and would change
\* the file on its own, and whose second entry fails validation.
C2_Witness ==
  /\ pc = "done" /\ tool = "hashedit" /\ preExists /\ last.status = "error"
  /\ last.kind = "Invalid"
  /\ Len(Entries(args)) = 2
  /\ validateEdit(Entries(args)[1].edit, Entries(args)[1].op) = "ok"
  /\ EngineEdit(TRUE, pre, Stringify(<<Pushed(Entries(args)[1])>>)).status = "ok"
  /\ EngineEdit(TRUE, pre, Stringify(<<Pushed(Entries(args)[1])>>)).file # pre

\* A call that supplied exactly one entry, an object, and no write.
CallOfOne ==
  /\ pc = "done" /\ ~args.write.present
  /\ Len(Entries(args)) = 1 /\ Entries(args)[1].edit.t = "object"

\* A call of one entry whose pos is a well-formed anchor, in either form,
\* citing a line of the file with its current hash; no end, valid lines.
CitesCurrentLine ==
  /\ CallOfOne /\ preExists
  /\ Entries(args)[1].edit.pos.t \in {"string", "object"}
  /\ DecodeAnchor(Entries(args)[1].edit.pos).ok
  /\ ResolveAnchor(pre, DecodeAnchor(Entries(args)[1].edit.pos)) = "ok"
  /\ Entries(args)[1].edit.end.t = "undefined"
  /\ ValidateLines(Entries(args)[1].edit, Entries(args)[1].op) = "ok"

PassedObjectChecks(a) ==
  /\ a.t = "object"
  /\ \/ a.line.t = "number" /\ a.line.den > 0 /\ a.line.num >= a.line.den
     \/ a.line.t = "null"
  /\ a.hash.t = "string" /\ Len(a.hash.s) = 2

\* C4 as stated: every anchor forwarded to the engine has a positive integer
\* line and a hash of exactly 2 characters of 0-9A-Z.
C4_ForwardedAnchorsWellFormed ==
  (pc = "done" /\ last.engineCalls = 1) =>
    \A i \in 1..Len(last.sent) :
      /\ last.sent[i].pos.t # "undefined" => DecodeAnchor(last.sent[i].pos).ok
      /\ last.sent[i].end.t # "undefined" => DecodeAnchor(last.sent[i].end).ok

\* C4 amended: wrapper validation is shallow.  An anchor forwarded by the
\* {line, hash} wrapper is an object whose line is a number not below 1 (a
\* non-integer passes, NaN passes and arrives as null) and whose hash is a
\* string of exactly 2 characters of any kind; a falsy end is forwarded
\* unchecked.  The "LINE#HASH" wrapper forwards any string.  A forwarded
\* anchor that is malformed is refused by the engine, the file unchanged.
C4_ShallowValidation ==
  (pc = "done" /\ last.engineCalls = 1) =>
    /\ \A i \in 1..Len(last.sent) :
         LET e == last.sent[i]
         IN /\ tool = "hashedit" =>
                 /\ PassedObjectChecks(e.pos)
                 /\ Truthy(e.end) => PassedObjectChecks(e.end)
            /\ tool = "hashedit-str" =>
                 /\ e.pos.t \in {"undefined", "string"}
                 /\ e.end.t \in {"undefined", "string"}
    /\ ~C4_ForwardedAnchorsWellFormed => last.status = "error" /\ file = pre

\* C4 witness: the reserved hash of two spaces passes the wrapper and is
\* refused by the engine's anchor parser.
C4_Witness ==
  /\ pc = "done" /\ tool = "hashedit" /\ last.engineCalls = 1
  /\ last.sent[1].pos.t = "object"
  /\ last.sent[1].pos.hash.s = DeletedHash
  /\ last.kind = "InvalidAnchorSyntax" /\ file = pre

\* C5: when write is supplied, the file afterwards is exactly the supplied
\* content, whatever it was before and whether or not it existed; the engine
\* is not run, nothing is forwarded, and the result is a summary (Created or
\* Updated, with the size) that carries no diff.
C5_WriteReplacesFile ==
  (pc = "done" /\ args.write.present) =>
    /\ exists /\ file = args.write.content
    /\ last.status = "ok"
    /\ last.engineCalls = 0 /\ last.sent = <<>>
    /\ last.output.type = "summary" /\ last.output.rows = <<>>
    /\ last.output.title = IF preExists THEN "Updated" ELSE "Created"
    /\ last.output.size = ByteSize(args.write.content)

\* C5 witness: a write that empties an existing, non-empty file.
C5_Witness ==
  /\ pc = "done" /\ args.write.present /\ preExists
  /\ pre # <<>> /\ file = <<>> /\ last.output.title = "Updated"

\* The call with every delete entry supplied as a replace entry with an
\* empty lines array instead.
AsReplace(a) ==
  [a EXCEPT !.delete = Absent,
            !.replace = Given([i \in 1..Len(a.delete.items) |->
                                 [a.delete.items[i] EXCEPT !.lines = LArr(<<>>)]])]

RunTool(t, e, buf, a) == IF t = "hashedit" THEN execute(e, buf, a) ELSE executeStr(e, buf, a)

\* C6: every delete entry is forwarded as exactly one operation
\* {op: replace, pos, end, lines: []}; a call that deletes and the call that
\* replaces the same lines with an empty lines array forward the same batch
\* and leave the same file.
C6_DeleteIsReplaceEmpty ==
  (pc = "done" /\ ~args.write.present /\ args.delete.present) =>
    /\ last.engineCalls = 1 =>
         /\ Len(last.sent) = Len(Entries(args))
         /\ \A i \in 1..Len(last.sent) :
              Entries(args)[i].op = "delete" =>
                last.sent[i] = [op |-> "replace",
                                pos |-> JsonAnchor(Entries(args)[i].edit.pos),
                                end |-> JsonAnchor(Entries(args)[i].edit.end),
                                lines |-> LArr(<<>>)]
    /\ (~args.replace.present /\ ~args.append.present /\ ~args.prepend.present) =>
         LET other == RunTool(tool, preExists, pre, AsReplace(args))
         IN /\ other.sent = last.sent
            /\ other.file = file
            /\ other.status = last.status
            /\ other.kind = last.kind

\* C6 witness: a range delete that removed lines.
C6_Witness ==
  /\ pc = "done" /\ ~args.write.present /\ args.delete.present
  /\ ~args.replace.present /\ ~args.append.present /\ ~args.prepend.present
  /\ last.status = "ok" /\ Len(last.sent) = 1
  /\ last.sent[1].end.t # "undefined"
  /\ Len(file) + 2 <= Len(pre)

\* C7: a call that supplies no operation (no write; replace, append,
\* prepend and delete each absent or empty) fails with the empty-batch error
\* before the engine is run, and the file is unchanged.
C7_EmptyBatchRefused ==
  (pc = "done" /\ ~args.write.present /\ Entries(args) = <<>>) =>
    /\ last.status = "error" /\ last.kind = "NoEdits"
    /\ last.engineCalls = 0 /\ last.sent = <<>>
    /\ file = pre /\ exists = preExists

\* C7 witness: empty arrays were supplied for an existing file.
C7_Witness ==
  /\ pc = "done" /\ ~args.write.present /\ Entries(args) = <<>>
  /\ args.replace.present /\ args.delete.present /\ ~args.append.present
  /\ preExists /\ pre # <<>> /\ last.kind = "NoEdits"

\* A successful edit (not a write) that returned a diff.
Edited == pc = "done" /\ last.status = "ok" /\ last.output.type = "diff"

\* The anchor "n#h" as the wrapper of the last call takes it.
Cite(n, h) == InForm(IF tool = "hashedit" THEN "object" ELSE "string", n, h)

\* C8: after a successful edit, every anchor on a context row or an
\* inserted row of the diff is valid against the post-edit file: the row
\* shows line N of the file with the cumulative hash of lines 1..N, and an
\* immediately following edit that cites it is accepted.
C8_DiffAnchorsFresh ==
  Edited =>
    \A i \in 1..Len(last.output.rows) :
      LET r == last.output.rows[i]
      IN r.kind \in {"ctx", "ins"} =>
           /\ r.n \in 1..Len(file)
           /\ r.content = file[r.n]
           /\ ResolveAnchor(file, [line |-> r.n, hash |-> r.hash]) = "ok"
           /\ RunTool(tool, TRUE, file,
                      ArgsOf(<<Tag("replace",
                                   Entry(Cite(r.n, r.hash), AUndef, Line(<<"b">>)))>>)).status = "ok"

\* C8 witness: the diff shows an inserted row and, after it, a context row
\* whose hash is no longer the one the line had before the edit.
C8_Witness ==
  /\ Edited
  /\ \E i, j \in 1..Len(last.output.rows) :
       /\ i < j
       /\ last.output.rows[i].kind = "ins"
       /\ last.output.rows[j].kind = "ctx"
       /\ last.output.rows[j].n <= Len(pre)
       /\ last.output.rows[j].hash # LineHash(pre, last.output.rows[j].n)

\* The position k a one-entry edit changed: a line was inserted at k, or
\* line k was replaced by one line of different content.
ChangedLine ==
  LET iv == Interval(pre, last.sent[1], 1)
  IN IF \/ iv.ins /\ Len(iv.lines) >= 1
        \/ /\ ~iv.ins /\ iv.end = iv.start + 1 /\ Len(iv.lines) = 1
           /\ iv.lines[1] # pre[iv.start]
     THEN iv.start ELSE 0

SameInsertionPoint(batch) ==
  LET a == Interval(pre, batch[1], 1)
      b == Interval(pre, batch[2], 2)
  IN a.ins /\ b.ins /\ a.start = b.start /\ batch[1].op = batch[2].op

\* C10 as stated: a batch and the same operations in the other order give
\* the same post-edit file, also when two of them are insertions at the
\* same insertion point.
C10_OrderIndependent ==
  (Edited /\ Len(last.sent) = 2) =>
    LET other == EngineEdit(preExists, pre, <<last.sent[2], last.sent[1]>>)
    IN other.status = "ok" /\ other.file = file

\* C10 amended: a batch and the same non-overlapping operations in the
\* other order give the same post-edit file unless two of them are
\* insertions of the same kind (two appends, or two prepends) at the same
\* insertion point; those are concatenated in request order.
C10_OrderIndependentButSamePoint ==
  (Edited /\ Len(last.sent) = 2 /\ ~SameInsertionPoint(last.sent)) =>
    LET other == EngineEdit(preExists, pre, <<last.sent[2], last.sent[1]>>)
    IN other.status = "ok" /\ other.file = file

\* C10 witness: an append after line k and a prepend before line k+1, with
\* different lines, in one batch.
C10_Witness ==
  /\ Edited /\ Len(last.sent) = 2
  /\ Interval(pre, last.sent[1], 1).ins /\ Interval(pre, last.sent[2], 2).ins
  /\ Interval(pre, last.sent[1], 1).start = Interval(pre, last.sent[2], 2).start
  /\ last.sent[1].op # last.sent[2].op
  /\ last.sent[1].pos.t # "undefined" /\ last.sent[2].pos.t # "undefined"
  /\ last.sent[1].lines # last.sent[2].lines

\* The line k of a two-entry batch that is an append after line k and a
\* prepend before line k+1 (in either request order), or 0.
BoundaryLine ==
  LET app == SelectSeq(last.sent, LAMBDA e : e.op = "append" /\ e.pos.t # "undefined")
      pre1 == SelectSeq(last.sent, LAMBDA e : e.op = "prepend" /\ e.pos.t # "undefined")
  IN IF /\ Len(last.sent) = 2 /\ Len(app) = 1 /\ Len(pre1) = 1
        /\ DecodeAnchor(pre1[1].pos).line = DecodeAnchor(app[1].pos).line + 1
     THEN DecodeAnchor(app[1].pos).line ELSE 0

\* The lines the entry of kind op of the batch inserts.
InsertedBy(op) == PlainLines(SelectSeq(last.sent, LAMBDA e : e.op = op)[1].lines)

\* C11: a batch with an append after line k inserting A and a prepend
\* before line k+1 inserting P leaves, between the original lines k and
\* k+1, A followed by P.
C11_AppendPrecedesPrepend ==
  (Edited /\ BoundaryLine >= 1) =>
    file = SubSeq(pre, 1, BoundaryLine) \o InsertedBy("append") \o InsertedBy("prepend")
             \o SubSeq(pre, BoundaryLine + 1, Len(pre))

\* The last call without its write parameter.
WithoutWrite == [args EXCEPT !.write = NoWrite]

\* C12: when write is supplied together with replace, append, prepend or
\* delete entries, the entries are neither validated nor forwarded nor
\* applied: the call succeeds, reports no error, runs no engine, and leaves
\* the file equal to the write string, also when the entries are malformed
\* or cite stale anchors.
C12_WriteIgnoresEntries ==
  (pc = "done" /\ args.write.present /\ Entries(args) # <<>>) =>
    /\ last.status = "ok" /\ last.kind = "ok" /\ last.where = NoWhere
    /\ last.sent = <<>> /\ last.engineCalls = 0 /\ last.writes = 1
    /\ exists /\ file = args.write.content
    /\ last.output.type = "summary"

\* C12 witness: a write with entries that the same wrapper refuses when
\* they are supplied without write.
C12_Witness ==
  /\ pc = "done" /\ args.write.present /\ Entries(args) # <<>>
  /\ last.status = "ok" /\ file = args.write.content /\ file # pre
  /\ RunTool(tool, preExists, pre, WithoutWrite).status = "error"
  /\ RunTool(tool, preExists, pre, WithoutWrite).kind = "Invalid"

\* A write with an entry that is accepted and applied when it is supplied
\* without write.
C12_WitnessValidEntry ==
  /\ pc = "done" /\ args.write.present /\ Entries(args) # <<>>
  /\ RunTool(tool, preExists, pre, WithoutWrite).status = "ok"
  /\ RunTool(tool, preExists, pre, WithoutWrite).file # file

\* The call was forwarded to the engine.
Forwarded == pc = "done" /\ last.engineCalls = 1

\* The number of entries supplied in the array arr.
Supplied(arr) == IF arr.present THEN Len(arr.items) ELSE 0

\* The forwarded operations from position off + 1 on are the entries of
\* arr, in the order of arr, each as the operation op.
GroupAt(arr, off, op) ==
  \A i \in 1..Supplied(arr) :
    LET sent == last.sent[off + i]
        e == arr.items[i]
    IN /\ sent.op = op
       /\ sent.pos = JsonAnchor(e.pos)

\* In a forwarded batch of two insertions of one kind at one insertion
\* point, the lines of the first precede the lines of the second.
TieInRequestOrder ==
  (Edited /\ Len(last.sent) = 2 /\ SameInsertionPoint(last.sent)) =>
    LET at == Interval(pre, last.sent[1], 1).start
    IN file = SubSeq(pre, 1, at - 1) \o PlainLines(last.sent[1].lines)
                \o PlainLines(last.sent[2].lines) \o SubSeq(pre, at, Len(pre))

\* C13: the forwarded batch holds one operation per supplied entry, all
\* replace entries first, then the append, the prepend and the delete
\* entries, each array in its own order; between insertions of one kind at
\* one point this order decides which lines come first.
C13_ForwardedOrder ==
  Forwarded =>
    /\ Len(last.sent) = Supplied(args.replace) + Supplied(args.append)
                          + Supplied(args.prepend) + Supplied(args.delete)
    /\ GroupAt(args.replace, 0, "replace")
    /\ GroupAt(args.append, Supplied(args.replace), "append")
    /\ GroupAt(args.prepend, Supplied(args.replace) + Supplied(args.append), "prepend")
    /\ GroupAt(args.delete,
               Supplied(args.replace) + Supplied(args.append) + Supplied(args.prepend),
               "replace")
    /\ TieInRequestOrder

\* C13 witness: a prepend entry and an append entry at different lines are
\* forwarded append first, and the edit is applied.
C13_Witness ==
  /\ Edited /\ Len(last.sent) = 2
  /\ Supplied(args.append) = 1 /\ Supplied(args.prepend) = 1
  /\ last.sent[1].op = "append" /\ last.sent[2].op = "prepend"
  /\ last.sent[1].pos # last.sent[2].pos

\* Two appends after the same line, with different lines, were applied.
C13_WitnessTie ==
  /\ Edited /\ Len(last.sent) = 2 /\ SameInsertionPoint(last.sent)
  /\ Supplied(args.append) = 2
  /\ last.sent[1].lines # last.sent[2].lines

====
